---- MODULE Spec2Model ----
(***************************************************************************)
(* wait_for_postgres() of testopenlineage/dbt/wait-for-postgres.py as a    *)
(* state machine.  One action per statement of the routine and per         *)
(* outcome of the calls it makes into the database client (connect,        *)
(* close) and into time.sleep: each call either returns, raises            *)
(* psycopg2.OperationalError (caught by the except clause of line 21) or   *)
(* raises something else (not caught: it leaves the routine).              *)
(*                                                                         *)
(* max_retries is the local of line 7.  The routine's contract is stated   *)
(* for every positive value of it, so the model fixes it at Init to one    *)
(* of 1..MaxRetriesBound or to the value the code assigns, MAX_RETRIES.    *)
(*                                                                         *)
(* MainReturn and MainUncaught are the end of the program of lines 28-29:  *)
(* the routine's value is dropped, and only an uncaught exception gives a  *)
(* non-zero exit status.                                                   *)
(***************************************************************************)
EXTENDS Integers, Sequences, FiniteSets, TLC

VARIABLES
    pc,             \* the statement about to be executed
    max_retries,    \* line 7
    retry_interval, \* line 8
    attempt,        \* the loop variable of line 10; -1 while unbound
    conn,           \* the local of line 12: "unbound", "open" or "closed"
    exc,            \* the exception being raised, or "None"
    result,         \* the returned value: "None" until a return executes
    out,            \* the lines printed so far
    sleeps,         \* the argument of every time.sleep call that returned
    connect_args,   \* the keyword arguments of every psycopg2.connect call
    opened,         \* connections psycopg2.connect has returned
    close_calls,    \* conn.close() calls made
    closed_ok,      \* conn.close() calls that returned
    open_conns,     \* connections opened and not closed
    failures,       \* attempts that ended in the except clause
    raised_by,      \* the call that raised the latest exception, or "None"
    exit_status     \* the exit status of the process; -1 while it runs

vars == <<pc, max_retries, retry_interval, attempt, conn, exc, result, out,
          sleeps, connect_args, opened, close_calls, closed_ok, open_conns,
          failures, raised_by, exit_status>>

\* Largest max_retries explored besides the code's own value.
MaxRetriesBound == 4

MAX_RETRIES == 30

RETRY_INTERVAL == 2

\* The keyword arguments of lines 13-16.
ConnectionParameters ==
    [host |-> "postgres", database |-> "dbt_test",
     user |-> "dbt_user", password |-> "dbt_password"]

READY_LINE == "PostgreSQL is ready!"

FAILED_LINE == "Failed to connect to PostgreSQL"

\* WaitingLine as it would be printing the 0-based loop variable.
WaitingLineZeroBased(a, m) ==
    "Waiting for PostgreSQL... (attempt " \o ToString(a) \o "/"
        \o ToString(m) \o ")"

\* The f-string of line 22, a being the value of attempt and m of max_retries.
WaitingLine(a, m) ==
    "Waiting for PostgreSQL... (attempt " \o ToString(a + 1) \o "/"
        \o ToString(m) \o ")"

\* HasNext as it would be with range(max_retries + 1).
HasNextOffByOne(a, m) == a + 1 < m + 1

\* range(max_retries) still has a value after a (line 10).
HasNext(a, m) == a + 1 < m

Init ==
    /\ pc = "for"
    /\ max_retries \in (1..MaxRetriesBound) \cup {MAX_RETRIES}
    /\ retry_interval = RETRY_INTERVAL
    /\ attempt = -1
    /\ conn = "unbound"
    /\ exc = "None"
    /\ result = "None"
    /\ out = <<>>
    /\ sleeps = <<>>
    /\ connect_args = <<>>
    /\ opened = 0
    /\ close_calls = 0
    /\ closed_ok = 0
    /\ open_conns = 0
    /\ failures = 0
    /\ raised_by = "None"
    /\ exit_status = -1

\* ForNext as it would be with the pause at the top of the loop body.
ForNextSleepFirst ==
    /\ pc = "for"
    /\ HasNext(attempt, max_retries)
    /\ attempt' = attempt + 1
    /\ sleeps' = Append(sleeps, retry_interval)
    /\ pc' = "connect"
    /\ UNCHANGED <<exit_status, raised_by,
                   max_retries, retry_interval, conn, exc, result, out,
                   connect_args, opened, close_calls, closed_ok, open_conns,
                   failures>>

\* Line 10: the for statement takes the next value of range(max_retries).
ForNext ==
    /\ pc = "for"
    /\ HasNext(attempt, max_retries)
    /\ attempt' = attempt + 1
    /\ pc' = "connect"
    /\ UNCHANGED <<exit_status, raised_by,
                   max_retries, retry_interval, conn, exc, result, out, sleeps,
                   connect_args, opened, close_calls, closed_ok, open_conns,
                   failures>>

\* Line 10: range(max_retries) is used up; control falls to line 25.
ForExhausted ==
    /\ pc = "for"
    /\ ~HasNext(attempt, max_retries)
    /\ pc' = "print_failed"
    /\ UNCHANGED <<exit_status, raised_by,
                   max_retries, retry_interval, attempt, conn, exc, result,
                   out, sleeps, connect_args, opened, close_calls, closed_ok,
                   open_conns, failures>>

\* Lines 12-17: psycopg2.connect returns a connection, bound to conn.
ConnectOk ==
    /\ pc = "connect"
    /\ connect_args' = Append(connect_args, ConnectionParameters)
    /\ opened' = opened + 1
    /\ open_conns' = open_conns + 1
    /\ conn' = "open"
    /\ pc' = "close"
    /\ UNCHANGED <<exit_status, raised_by,
                   max_retries, retry_interval, attempt, exc, result, out,
                   sleeps, close_calls, closed_ok, failures>>

\* Lines 12-17: psycopg2.connect raises OperationalError; control goes to
\* the except clause of line 21.  conn keeps its previous binding.
ConnectOperationalError ==
    /\ pc = "connect"
    /\ connect_args' = Append(connect_args, ConnectionParameters)
    /\ exc' = "OperationalError"
    /\ pc' = "except"
    /\ raised_by' = "connect"
    /\ UNCHANGED <<exit_status,
                   max_retries, retry_interval, attempt, conn, result, out,
                   sleeps, opened, close_calls, closed_ok, open_conns,
                   failures>>

\* Lines 12-17: psycopg2.connect raises anything else.
ConnectError ==
    /\ pc = "connect"
    /\ connect_args' = Append(connect_args, ConnectionParameters)
    /\ exc' = "Error"
    /\ pc' = "except"
    /\ raised_by' = "connect"
    /\ UNCHANGED <<exit_status,
                   max_retries, retry_interval, attempt, conn, result, out,
                   sleeps, opened, close_calls, closed_ok, open_conns,
                   failures>>

\* CloseOk as it would be with line 18 missing.
CloseForgotten ==
    /\ pc = "close"
    /\ pc' = "print_ready"
    /\ UNCHANGED <<exit_status, raised_by,
                   max_retries, retry_interval, attempt, conn, exc, result,
                   out, sleeps, connect_args, opened, close_calls, closed_ok,
                   open_conns, failures>>

\* Line 18: conn.close() returns.
CloseOk ==
    /\ pc = "close"
    /\ close_calls' = close_calls + 1
    /\ closed_ok' = closed_ok + 1
    /\ open_conns' = open_conns - 1
    /\ conn' = "closed"
    /\ pc' = "print_ready"
    /\ UNCHANGED <<exit_status, raised_by,
                   max_retries, retry_interval, attempt, exc, result, out,
                   sleeps, connect_args, opened, failures>>

\* CloseOperationalError as it would be with the error of close swallowed
\* next to the call (try: conn.close() / except: pass).
CloseOperationalErrorIgnored ==
    /\ pc = "close"
    /\ close_calls' = close_calls + 1
    /\ \E released \in BOOLEAN :
          /\ open_conns' = IF released THEN open_conns - 1 ELSE open_conns
          /\ conn' = IF released THEN "closed" ELSE "open"
    /\ pc' = "print_ready"
    /\ UNCHANGED <<exit_status, raised_by,
                   max_retries, retry_interval, attempt, exc, result, out,
                   sleeps, connect_args, opened, closed_ok, failures>>

\* CloseOperationalError as it would be with the close retried on error
\* (while True: try: conn.close(); break / except OperationalError: pass).
CloseOperationalErrorRetried ==
    /\ pc = "close"
    /\ close_calls' = close_calls + 1
    /\ pc' = "close"
    /\ UNCHANGED <<exit_status, raised_by,
                   max_retries, retry_interval, attempt, conn, exc, result,
                   out, sleeps, connect_args, opened, closed_ok, open_conns,
                   failures>>

\* Line 18: conn.close() raises OperationalError; control goes to the
\* except clause of line 21.  Whether the connection was released before
\* the error is the client's business: both outcomes are possible.
CloseOperationalError ==
    /\ pc = "close"
    /\ close_calls' = close_calls + 1
    /\ \E released \in BOOLEAN :
          /\ open_conns' = IF released THEN open_conns - 1 ELSE open_conns
          /\ conn' = IF released THEN "closed" ELSE "open"
    /\ exc' = "OperationalError"
    /\ pc' = "except"
    /\ raised_by' = "close"
    /\ UNCHANGED <<exit_status,
                   max_retries, retry_interval, attempt, result, out, sleeps,
                   connect_args, opened, closed_ok, failures>>

\* Line 18: conn.close() raises anything else.
CloseError ==
    /\ pc = "close"
    /\ close_calls' = close_calls + 1
    /\ \E released \in BOOLEAN :
          /\ open_conns' = IF released THEN open_conns - 1 ELSE open_conns
          /\ conn' = IF released THEN "closed" ELSE "open"
    /\ exc' = "Error"
    /\ pc' = "except"
    /\ raised_by' = "close"
    /\ UNCHANGED <<exit_status,
                   max_retries, retry_interval, attempt, result, out, sleeps,
                   connect_args, opened, closed_ok, failures>>

\* ExceptOperationalError as it would be with a bare "except:" clause.
ExceptAnything ==
    /\ pc = "except"
    /\ exc' = "None"
    /\ failures' = failures + 1
    /\ pc' = "print_waiting"
    /\ UNCHANGED <<exit_status, raised_by,
                   max_retries, retry_interval, attempt, conn, result, out,
                   sleeps, connect_args, opened, close_calls, closed_ok,
                   open_conns>>

\* ExceptOperationalError as it would be with line 22 missing: the body
\* of the clause starts at the pause.
ExceptOperationalErrorNoNotice ==
    /\ pc = "except"
    /\ exc = "OperationalError"
    /\ exc' = "None"
    /\ failures' = failures + 1
    /\ pc' = "sleep"
    /\ UNCHANGED <<exit_status, raised_by,
                   max_retries, retry_interval, attempt, conn, result, out,
                   sleeps, connect_args, opened, close_calls, closed_ok,
                   open_conns>>

\* Line 21: the except clause matches psycopg2.OperationalError and its
\* body is entered; the exception is handled.
ExceptOperationalError ==
    /\ pc = "except"
    /\ exc = "OperationalError"
    /\ exc' = "None"
    /\ failures' = failures + 1
    /\ pc' = "print_waiting"
    /\ UNCHANGED <<exit_status, raised_by,
                   max_retries, retry_interval, attempt, conn, result, out,
                   sleeps, connect_args, opened, close_calls, closed_ok,
                   open_conns>>

\* Line 21: the except clause does not match; the exception leaves the
\* routine.
ExceptNoMatch ==
    /\ pc = "except"
    /\ exc # "OperationalError"
    /\ pc' = "raised"
    /\ UNCHANGED <<exit_status, raised_by,
                   max_retries, retry_interval, attempt, conn, exc, result,
                   out, sleeps, connect_args, opened, close_calls, closed_ok,
                   open_conns, failures>>

\* Line 19.
PrintReady ==
    /\ pc = "print_ready"
    /\ out' = Append(out, READY_LINE)
    /\ pc' = "return_true"
    /\ UNCHANGED <<exit_status, raised_by,
                   max_retries, retry_interval, attempt, conn, exc, result,
                   sleeps, connect_args, opened, close_calls, closed_ok,
                   open_conns, failures>>

\* ReturnTrue as it would be with line 20 missing: the loop goes round.
ReturnTrueMissing ==
    /\ pc = "return_true"
    /\ pc' = "for"
    /\ UNCHANGED <<exit_status, raised_by,
                   max_retries, retry_interval, attempt, conn, exc, result,
                   out, sleeps, connect_args, opened, close_calls, closed_ok,
                   open_conns, failures>>

\* Line 20.
ReturnTrue ==
    /\ pc = "return_true"
    /\ result' = "True"
    /\ pc' = "done"
    /\ UNCHANGED <<exit_status, raised_by,
                   max_retries, retry_interval, attempt, conn, exc, out,
                   sleeps, connect_args, opened, close_calls, closed_ok,
                   open_conns, failures>>

\* PrintWaiting as it would be with line 23 missing.
PrintWaitingNoSleep ==
    /\ pc = "print_waiting"
    /\ out' = Append(out, WaitingLine(attempt, max_retries))
    /\ pc' = "for"
    /\ UNCHANGED <<exit_status, raised_by,
                   max_retries, retry_interval, attempt, conn, exc, result,
                   sleeps, connect_args, opened, close_calls, closed_ok,
                   open_conns, failures>>

\* Line 22.
PrintWaiting ==
    /\ pc = "print_waiting"
    /\ out' = Append(out, WaitingLine(attempt, max_retries))
    /\ pc' = "sleep"
    /\ UNCHANGED <<exit_status, raised_by,
                   max_retries, retry_interval, attempt, conn, exc, result,
                   sleeps, connect_args, opened, close_calls, closed_ok,
                   open_conns, failures>>

\* Sleep as it would be with a backoff (retry_interval *= 2 after it).
SleepBackoff ==
    /\ pc = "sleep"
    /\ sleeps' = Append(sleeps, retry_interval)
    /\ retry_interval' = retry_interval * 2
    /\ pc' = "for"
    /\ UNCHANGED <<exit_status, raised_by,
                   max_retries, attempt, conn, exc, result,
                   out, connect_args, opened, close_calls, closed_ok,
                   open_conns, failures>>

\* Sleep as it would be with the pause skipped once the range is used up
\* (if attempt + 1 < max_retries: time.sleep(retry_interval)).
SleepUnlessLast ==
    /\ pc = "sleep"
    /\ sleeps' = IF HasNext(attempt, max_retries)
                 THEN Append(sleeps, retry_interval)
                 ELSE sleeps
    /\ pc' = "for"
    /\ UNCHANGED <<exit_status, raised_by,
                   max_retries, retry_interval, attempt, conn, exc, result,
                   out, connect_args, opened, close_calls, closed_ok,
                   open_conns, failures>>

\* Line 23: time.sleep(retry_interval) returns; the loop goes round.
Sleep ==
    /\ pc = "sleep"
    /\ sleeps' = Append(sleeps, retry_interval)
    /\ pc' = "for"
    /\ UNCHANGED <<exit_status, raised_by,
                   max_retries, retry_interval, attempt, conn, exc, result,
                   out, connect_args, opened, close_calls, closed_ok,
                   open_conns, failures>>

\* Line 23: time.sleep is interrupted (KeyboardInterrupt).  The call stands
\* in the body of the except clause, which no clause guards.
SleepInterrupted ==
    /\ pc = "sleep"
    /\ exc' = "Error"
    /\ pc' = "raised"
    /\ raised_by' = "sleep"
    /\ UNCHANGED <<exit_status,
                   max_retries, retry_interval, attempt, conn, result, out,
                   sleeps, connect_args, opened, close_calls, closed_ok,
                   open_conns, failures>>

\* Line 25.
PrintFailed ==
    /\ pc = "print_failed"
    /\ out' = Append(out, FAILED_LINE)
    /\ pc' = "return_false"
    /\ UNCHANGED <<exit_status, raised_by,
                   max_retries, retry_interval, attempt, conn, exc, result,
                   sleeps, connect_args, opened, close_calls, closed_ok,
                   open_conns, failures>>

\* Line 26.
ReturnFalse ==
    /\ pc = "return_false"
    /\ result' = "False"
    /\ pc' = "done"
    /\ UNCHANGED <<exit_status, raised_by,
                   max_retries, retry_interval, attempt, conn, exc, out,
                   sleeps, connect_args, opened, close_calls, closed_ok,
                   open_conns, failures>>

\* MainReturn as it would be with sys.exit(0 if wait_for_postgres() else 1).
MainReturnExitsWithResult ==
    /\ pc = "done"
    /\ exit_status = -1
    /\ exit_status' = IF result = "True" THEN 0 ELSE 1
    /\ UNCHANGED <<pc, max_retries, retry_interval, attempt, conn, exc,
                   result, out, sleeps, connect_args, opened, close_calls,
                   closed_ok, open_conns, failures, raised_by>>

\* Lines 28-29: the call of line 29 returns, its value is dropped, the
\* module body ends and the interpreter exits with status 0.
MainReturn ==
    /\ pc = "done"
    /\ exit_status = -1
    /\ exit_status' = 0
    /\ UNCHANGED <<pc, max_retries, retry_interval, attempt, conn, exc,
                   result, out, sleeps, connect_args, opened, close_calls,
                   closed_ok, open_conns, failures, raised_by>>

\* Lines 28-29: an exception leaves the call of line 29; nothing catches
\* it and the interpreter exits with status 1.
MainUncaught ==
    /\ pc = "raised"
    /\ exit_status = -1
    /\ exit_status' = 1
    /\ UNCHANGED <<pc, max_retries, retry_interval, attempt, conn, exc,
                   result, out, sleeps, connect_args, opened, close_calls,
                   closed_ok, open_conns, failures, raised_by>>

Next ==
    \/ ForNext
    \/ ForExhausted
    \/ ConnectOk
    \/ ConnectOperationalError
    \/ ConnectError
    \/ CloseOk
    \/ CloseOperationalError
    \/ CloseError
    \/ ExceptOperationalError
    \/ ExceptNoMatch
    \/ PrintReady
    \/ ReturnTrue
    \/ PrintWaiting
    \/ Sleep
    \/ SleepInterrupted
    \/ PrintFailed
    \/ ReturnFalse
    \/ MainReturn
    \/ MainUncaught

Spec == Init /\ [][Next]_vars

\* The routine runs on one thread that nothing suspends: the statement it
\* is at is eventually executed, and every call it makes comes back.
FairSpec == Spec /\ WF_vars(Next)

TypeOK ==
    /\ pc \in {"for", "connect", "close", "except", "print_ready", "return_true",
               "print_waiting", "sleep", "print_failed", "return_false",
               "done", "raised"}
    /\ attempt \in -1..(max_retries - 1)
    /\ conn \in {"unbound", "open", "closed"}
    /\ exc \in {"None", "OperationalError", "Error"}
    /\ result \in {"None", "True", "False"}
    /\ open_conns \in 0..opened
    /\ raised_by \in {"None", "connect", "close", "sleep"}
    /\ exit_status \in {-1, 0, 1}

(***************************************************************************)
(* Observations the properties are stated with.                            *)
(***************************************************************************)

\* Every line the f-string of line 22 can produce for small numbers.
WaitingLines ==
    {"Waiting for PostgreSQL... (attempt " \o ToString(x) \o "/"
        \o ToString(y) \o ")" :
        x \in 0..(MAX_RETRIES + 2), y \in 0..(MAX_RETRIES + 2)}

NumWaiting == Cardinality({i \in 1..Len(out) : out[i] \in WaitingLines})

NumReady == Cardinality({i \in 1..Len(out) : out[i] = READY_LINE})

NumFailed == Cardinality({i \in 1..Len(out) : out[i] = FAILED_LINE})

NumConnects == Len(connect_args)

NumPauses == Len(sleeps)

\* An attempt is one pass through the try body of lines 12-20; it succeeds
\* when both calls of the body return, and fails with the retryable error
\* when the except clause of line 21 is entered.
AttemptSucceeded == closed_ok >= 1

\* The routine is over: it returned, or an exception left it.
Finished == pc \in {"done", "raised"}

\* The states of the routine's life cycle.
Ready == pc \in {"print_ready", "return_true"} \/ result = "True"

Exhausted == pc \in {"print_failed", "return_false"} \/ result = "False"

\* The output of a run that returned r after n failed attempts out of m.
ExpectedOutput(n, m, r) ==
    [i \in 1..(n + 1) |->
        IF i <= n
        THEN "Waiting for PostgreSQL... (attempt " \o ToString(i) \o "/"
                 \o ToString(m) \o ")"
        ELSE IF r = "True" THEN READY_LINE ELSE FAILED_LINE]

(***************************************************************************)
(* Properties.                                                             *)
(***************************************************************************)

\* C1: when every attempt fails with the retryable error, the routine
\* returns False after exactly max_retries connection attempts and exactly
\* max_retries - 1 pauses.
C1_AllFailOnePauseLess ==
    result = "False" =>
        /\ failures = max_retries
        /\ NumConnects = max_retries
        /\ NumPauses = max_retries - 1

\* C2: when the attempts fail with the retryable error exactly k times and
\* the next one succeeds (k < max_retries), the routine returns True after
\* exactly k + 1 connection attempts, k pauses, k "Waiting..." lines and
\* one "ready" line.
C2_FailKThenSucceed ==
    AttemptSucceeded =>
        /\ pc \in {"print_ready", "return_true", "done"}
        /\ failures < max_retries
        /\ NumConnects = failures + 1
        /\ NumPauses = failures
        /\ NumWaiting = failures
        /\ pc = "done" => (result = "True" /\ NumReady = 1)

\* The example of C2: max_retries = 3, attempts 1-2 fail, attempt 3 succeeds.
C2_Witness ==
    /\ pc = "done"
    /\ result = "True"
    /\ max_retries = 3
    /\ failures = 2
    /\ NumConnects = 3
    /\ NumWaiting = 2
    /\ NumReady = 1

C4_FirstAttemptSucceeds ==
    (AttemptSucceeded /\ failures = 0) =>
        /\ pc \in {"print_ready", "return_true", "done"}
        /\ attempt = 0
        /\ NumConnects = 1
        /\ NumPauses = 0
        /\ NumWaiting = 0
        /\ pc = "done" => result = "True"

C4_Witness ==
    /\ pc = "done"
    /\ result = "True"
    /\ failures = 0
    /\ closed_ok = 1
    /\ max_retries = MAX_RETRIES

\* C5 as stated: when the routine is over no connection that was opened
\* remains unclosed, and on the success path the connection is closed
\* before the "ready" line and before the return.
C5_NoOpenedConnectionUnclosed ==
    /\ Finished => open_conns = 0
    /\ (NumReady >= 1 \/ result = "True") => (conn = "closed" /\ open_conns = 0)

\* C5 as amended: when the routine is over, close() has been called once on
\* every connection that was opened, and a connection can remain open only
\* if its close() raised; on the success path the connection of the
\* successful attempt is closed before the "ready" line and the return.
C5_EveryOpenedConnectionCloseCalled ==
    /\ Finished => close_calls = opened
    /\ Finished => open_conns <= close_calls - closed_ok
    /\ (NumReady >= 1 \/ result = "True") => (conn = "closed" /\ closed_ok = 1)

\* A run that returned True although the close() of an earlier attempt
\* raised and left that connection open.
C5_Witness ==
    /\ pc = "done"
    /\ result = "True"
    /\ opened = 2
    /\ close_calls = 2
    /\ closed_ok = 1
    /\ open_conns = 1

\* C6: the routine returns True exactly when some attempt opened a
\* connection and closed it without error, and False exactly when all
\* max_retries attempts ended in the retryable error.
C6_ReturnValueReflectsOutcome ==
    /\ result = "True" <=> (pc = "done" /\ closed_ok >= 1)
    /\ result = "False" <=> (pc = "done" /\ failures = max_retries)
    /\ pc = "done" => result \in {"True", "False"}

\* A run that returned False although a connection had been opened: its
\* close() raised the retryable error.
C6_Witness ==
    /\ pc = "done"
    /\ result = "False"
    /\ failures = max_retries
    /\ opened >= 1
    /\ closed_ok = 0

\* C7: if no call raises an error the routine does not catch, the routine
\* terminates in Ready or in Exhausted; the attempt counter never exceeds
\* max_retries, grows by exactly one at each iteration and at no other
\* step, and never decreases.
C7_TerminatesWithBoundedCounter ==
    /\ ([](exc # "Error")) => <>(pc = "done" /\ (Ready \/ Exhausted))
    /\ [](attempt + 1 <= max_retries /\ NumConnects <= max_retries)
    /\ [][/\ attempt' \in {attempt, attempt + 1}
          /\ (attempt' = attempt + 1) <=> (pc = "for" /\ pc' = "connect")]_vars

\* All MAX_RETRIES attempts were made.
C7_Witness ==
    /\ pc = "done"
    /\ result = "False"
    /\ max_retries = MAX_RETRIES
    /\ attempt + 1 = MAX_RETRIES

\* C8: Ready and Exhausted are terminal.  Once an attempt has succeeded
\* there is no further connection attempt, pause or "Waiting..." line; once
\* the failure line is printed there is no further connection attempt.
C8_ReadyAndExhaustedTerminal ==
    [][/\ AttemptSucceeded =>
             /\ connect_args' = connect_args
             /\ sleeps' = sleeps
             /\ NumWaiting' = NumWaiting
       /\ NumFailed >= 1 => connect_args' = connect_args
       /\ Ready => Ready'
       /\ Exhausted => Exhausted']_vars

C8_Witness ==
    /\ pc = "done"
    /\ Ready
    /\ NumReady = 1
    /\ NumWaiting = 1
    /\ NumConnects = 2

\* C9: an error other than OperationalError raised by a connection attempt
\* is not absorbed: it ends the routine at once, with no further attempt,
\* pause or line printed and with no boolean result.  An OperationalError
\* never leaves the routine.
C9_OnlyOperationalErrorAbsorbed ==
    /\ [][exc = "Error" =>
             /\ exc' = "Error"
             /\ pc' = "raised"
             /\ UNCHANGED <<connect_args, sleeps, out, result, failures>>]_vars
    /\ [](pc = "raised" =>
             /\ exc = "Error"
             /\ result = "None"
             /\ NumReady = 0
             /\ NumFailed = 0)
    /\ [](exc = "OperationalError" => pc = "except")
    /\ [][exc = "OperationalError" =>
             (exc' = "None" /\ pc' = "print_waiting")]_vars

\* The second connection attempt raised an error that is not caught.
C9_Witness ==
    /\ pc = "raised"
    /\ exc = "Error"
    /\ NumConnects = 2
    /\ NumPauses = 1
    /\ opened = 0

\* C10: the output of a run that returned is one "Waiting for
\* PostgreSQL... (attempt X/Y)" line per failed attempt, Y being
\* max_retries and X counting 1, 2, ... up to at most Y, then exactly one
\* last line: the "ready" line if the result is True, the "Failed" line if
\* it is False.
C10_ConsoleOutput ==
    pc = "done" =>
        /\ failures <= max_retries
        /\ out = ExpectedOutput(failures, max_retries, result)
        /\ NumReady + NumFailed = 1

C10_Witness ==
    /\ pc = "done"
    /\ result = "False"
    /\ max_retries = 3
    /\ Len(out) = 4

\* C11: after a failed attempt the notice of that attempt is printed
\* before the pause and the pause is over before the next connection
\* attempt starts: between two connection attempts there is exactly one
\* notice, then exactly one pause.
C11_NoticeThenPauseBetweenAttempts ==
    [][/\ connect_args' # connect_args =>
             /\ NumWaiting = NumConnects
             /\ NumPauses = NumConnects
       /\ sleeps' # sleeps =>
             /\ NumPauses = NumConnects - 1
             /\ NumWaiting = NumConnects
             /\ out[Len(out)] = WaitingLine(attempt, max_retries)
       /\ out' # out =>
             \/ NumWaiting' = NumWaiting
             \/ /\ NumWaiting' = NumWaiting + 1
                /\ NumWaiting = NumConnects - 1
                /\ NumPauses = NumConnects - 1]_vars

\* The third connection attempt is about to start, after two notices and
\* two pauses.
C11_Witness ==
    /\ pc = "connect"
    /\ NumConnects = 2
    /\ NumWaiting = 2
    /\ NumPauses = 2

\* C12: run as a program, the exit status does not depend on the value
\* the routine returns: after False the process ends with status 0, as it
\* does after True.
C12_ExitStatusIgnoresResult ==
    (exit_status # -1 /\ result \in {"True", "False"}) => exit_status = 0

\* The process has ended with status 0 after all attempts failed.
C12_Witness ==
    /\ result = "False"
    /\ failures = max_retries
    /\ exit_status = 0

\* C13 as stated: in every run the number of completed pauses equals the
\* number of attempts that failed with the retryable error, the last one
\* included, and the failure line and the return of False come only after
\* the pause that follows the last failed attempt.
C13_PausesEqualFailures ==
    /\ Finished => NumPauses = failures
    /\ Exhausted => (failures = max_retries /\ NumPauses = max_retries)

\* C13 as amended: the same in every run that an interrupted pause does
\* not cut short; a run ended by an interrupted pause has one completed
\* pause less than failed attempts.
C13_PausesEqualFailuresUnlessInterrupted ==
    /\ (Finished /\ raised_by # "sleep") => NumPauses = failures
    /\ (Finished /\ raised_by = "sleep") =>
          (pc = "raised" /\ NumPauses = failures - 1)
    /\ Exhausted =>
          /\ failures = max_retries
          /\ NumPauses = max_retries
          /\ NumConnects = max_retries

\* Two attempts, both failed, two pauses, then False.
C13_Witness ==
    /\ pc = "done"
    /\ result = "False"
    /\ max_retries = 2
    /\ failures = 2
    /\ NumPauses = 2

\* C14: when a connection is opened and its close() raises the retryable
\* error, the attempt is handled like a failed connect: no "ready" line,
\* the "Waiting..." line of the attempt and a pause follow, the attempt
\* counts against max_retries, and the routine goes on to the next attempt
\* or to the failure outcome without calling close() again.
C14_CloseErrorTreatedAsFailedConnect ==
    [][/\ (pc = "close" /\ exc' = "OperationalError") =>
             /\ pc' = "except"
             /\ out' = out
       /\ (raised_by = "close" /\ pc = "except"
              /\ exc = "OperationalError") =>
             /\ pc' = "print_waiting"
             /\ failures' = failures + 1
             /\ out' = out
       /\ (raised_by = "close" /\ pc = "print_waiting") =>
             /\ NumReady = 0
             /\ failures = attempt + 1
             /\ out' = Append(out, WaitingLine(attempt, max_retries))
             /\ pc' = "sleep"
       /\ (raised_by = "close" /\ pc = "sleep") =>
             \/ pc' = "for" /\ sleeps' = Append(sleeps, retry_interval)
             \/ pc' = "raised" /\ sleeps' = sleeps
       /\ (raised_by = "close" /\ pc = "for") =>
             \/ /\ attempt + 1 < max_retries
                /\ attempt' = attempt + 1
                /\ pc' = "connect"
             \/ /\ attempt + 1 = max_retries
                /\ pc' = "print_failed"
       /\ (raised_by = "close" /\ pc \notin {"connect", "close"}) =>
             close_calls' = close_calls
       /\ close_calls' <= opened'
       /\ NumConnects' <= max_retries]_vars

\* The close() of the first attempt raised the retryable error; the
\* second attempt is about to connect.
C14_Witness ==
    /\ pc = "connect"
    /\ raised_by = "close"
    /\ attempt = 1
    /\ opened = 1
    /\ close_calls = 1
    /\ closed_ok = 0
    /\ NumWaiting = 1
    /\ NumPauses = 1
    /\ NumReady = 0

\* C15: no step changes max_retries or retry_interval; every connection
\* attempt of a run is made with the same parameters, those of lines
\* 13-16, and every pause lasts the same interval, that of line 8.
C15_ParametersFixed ==
    /\ [][max_retries' = max_retries /\ retry_interval' = retry_interval]_vars
    /\ [](\A i, j \in 1..Len(connect_args) :
             /\ connect_args[i] = connect_args[j]
             /\ connect_args[i] = ConnectionParameters)
    /\ [](\A i, j \in 1..Len(sleeps) :
             /\ sleeps[i] = sleeps[j]
             /\ sleeps[i] = RETRY_INTERVAL)

\* Three connection attempts and three pauses were made.
C15_Witness ==
    /\ NumConnects = 3
    /\ NumPauses = 3
    /\ max_retries = 3

\* C16 as stated: at most one connection is open at any moment, and a run
\* that returns True has opened and closed without error exactly one
\* connection, that of its last attempt.
C16_AtMostOneOpenConnection ==
    /\ open_conns <= 1
    /\ closed_ok <= 1
    /\ result = "True" =>
          /\ closed_ok = 1
          /\ conn = "closed"
          /\ NumConnects = attempt + 1

\* C16 as amended: at most one connection on which close() has not been
\* called is open at any moment, and a connection can stay open besides
\* it only if its close() raised; the second half as stated.
C16_AtMostOneConnectionAwaitingClose ==
    /\ opened - close_calls \in {0, 1}
    /\ open_conns <= (opened - close_calls) + (close_calls - closed_ok)
    /\ closed_ok <= 1
    /\ result = "True" =>
          /\ closed_ok = 1
          /\ conn = "closed"
          /\ NumConnects = attempt + 1

\* A run that returned True with two earlier connections left open by a
\* close() that raised.
C16_Witness ==
    /\ pc = "done"
    /\ result = "True"
    /\ opened = 3
    /\ closed_ok = 1
    /\ open_conns = 2
====
